---- MODULE Spec2Model ----
(***************************************************************************)
(* State-machine model of mendsley/sched: the cooperative fiber scheduler  *)
(* (src/src/scheduler.cpp) and the primitives built on it.                 *)
(*                                                                         *)
(* Atomicity: every critical section of taskListMutex is one step; the     *)
(* condvar notification that follows an unlock is folded into the step     *)
(* (the set of waiters it can release is the same).  Code that touches     *)
(* only thread-local or fiber-local data is folded into the neighbouring   *)
(* step.  Undefined behaviour (switching into a fiber that is executing,   *)
(* using a released fiber, a null dereference) is a nondeterministic       *)
(* choice between a crash of the process and the "it kept going" outcome.  *)
(*                                                                         *)
(* The uint32_t atomics of sema.cpp are integers here: the bounds keep     *)
(* them far below 2^32, and a decrement below zero (which the code never   *)
(* makes) shows as a negative value instead of a wrapped one.              *)
(***************************************************************************)
EXTENDS Integers, Sequences, FiniteSets, TLC

\* ---------------------------------------------------------------- bounds
NThreads == 2
NScheds  == 2
MaxTasks == 2
MaxQueue == 3
MaxOps   == 6
MaxOpsOne == 10
NSemaTasks == 3
NSemas   == 2
MaxPermits == 1
MaxSemaOps == 4
MaxLiveOps == 3
MaxWgOps == 5
MaxDelta == 2
RoundN == 2
RoundW == 2
NTimerTasks == 4
MaxMs == 2
MaxSleeps == 4
MaxLiveSleeps == 3
NLiveTimerTasks == 2
RRK == 3
RRM == 2
RRBudget == 14

Threads == 1..NThreads
Scheds  == 1..NScheds
MaxOf(a, b) == IF a > b THEN a ELSE b
Tasks   == 1..MaxOf(MaxOf(MaxTasks, NSemaTasks), NTimerTasks)
SemaTasks == 1..NSemaTasks
Semas   == 1..NSemas
TimerTasks == 1..NTimerTasks
\* the thread that runs timerContextProcess
TimerThread == 2

\* nullptr
NULL == 0

\* &thread->initialTask of the SchedulerThread of thread th
InitialTask(th) == 0 - th

AllTasks == Tasks \cup {InitialTask(th) : th \in Threads}

VARIABLES
    \* struct Scheduler
    activeThreads,   \* [Scheds -> Int]
    front, last,     \* taskList.front / taskList.last
    cfront, clast,   \* taskListCompleted.front / .last
    cvWait,          \* threads blocked in taskListCondvar.wait
    \* struct Task
    next,            \* task->next
    ntasks,          \* number of Task records constructed so far
    freed,           \* tasks whose fiber was released and record destroyed
    saved,           \* the execution context stored in each fiber
    \* per thread
    tls,             \* s_tlsSchedulerThread (its scheduler, NULL when unset)
    currentTask,     \* thread->currentTask
    cur,             \* the fiber the thread is executing
    ctx,             \* the thread's position: [pc, ret, sched, task]
    crashed,         \* the process aborted or faulted
    \* history (not read by the program)
    owner,           \* the scheduler each task was spawned on
    wakePending,     \* tasks inside suspendSelf() for which no wake was issued
    enq,             \* per scheduler: tasks pushed on taskList, not yet popped
    rt,              \* attach/detach round trip in progress, per thread
    inWait,          \* threads inside waitForOtherThreadsAndDetach
    conf,            \* what user code may do: [nsched, budget]
    ops,             \* number of API calls made by user code
    \* class Sema, struct Root, struct Waiter (sema.cpp)
    sem,             \* Sema::s, the permit counter
    rootLock,        \* Root::lock: the task that locked it, NULL when free
    rootHead,        \* Root::head
    rootWaiters,     \* Root::waiters
    wnext, wsema,    \* Waiter::next, Waiter::sema (Waiter::owner is the index)
    sp,              \* each task's position inside the Sema functions
    unlockPending,   \* per thread: the root its pending unlock callback names
    \* history of the semaphores (not read by the program)
    initial,         \* the permits each Sema was constructed with
    nRel,            \* number of s.fetch_add(1) made by release()
    nAcq,            \* number of successful decrements made by tryAcquire
    nPost,           \* releases made by a task that held no permit
    holding,         \* permits a task acquired and has not released yet
    sops,            \* number of Sema calls made by user code
    \* class WaitGroup (waitgroup.cpp)
    wgState,         \* WaitGroup::state: [count, waiters], the two halves
    wp,              \* each task's position inside the WaitGroup functions
    \* history of the WaitGroup (not read by the program)
    wreg,            \* per task: registered as a waiter / count reached 0 since
    wgRegs,          \* number of waiters registered (line 69 succeeded)
    wgRels,          \* number of sema.release() calls made by add (line 50)
    wgBad,           \* an assert of add was false and the process went on
    wgCalls,         \* calls made by user code: [plus, minus, waits]
    \* struct TimerContext, struct Timer (timer.cpp)
    timers,          \* ctx->timers, the heap vector, as a sequence of tasks
    when,            \* Timer::when of the Timer on each task's stack
    internalHeapIndex, \* Timer::internalHeapIndex
    timerLock,       \* ctx->lock: who locked it, NULL when free
    clock,           \* timer_clock::now()
    tp,              \* timerContextProcess: [pc, now, t, until, notified]
    slp,             \* each task's position inside sleepMS
    timerUnlock,     \* per thread: it owes the unlock callback of sleepMS
    \* history of the timer (not read by the program)
    tmHist,          \* per task: [sleeps, wakes, resumes]
    tops,            \* number of sleepMS calls made by user code
    \* history of the round-robin workload (not read by the program)
    rec              \* the identities the tasks recorded, in order

schedVars == <<activeThreads, front, last, cfront, clast, cvWait>>
taskVars  == <<next, ntasks, freed, saved>>
thrVars   == <<tls, currentTask, cur, ctx, crashed>>
histVars  == <<owner, wakePending, enq, rt, inWait, conf, ops>>
semaVars  == <<sem, rootLock, rootHead, rootWaiters, wnext, wsema, sp,
               unlockPending, initial, nRel, nAcq, nPost, holding, sops>>
wgVars    == <<wgState, wp, wreg, wgRegs, wgRels, wgBad, wgCalls>>
timerVars == <<timers, when, internalHeapIndex, timerLock, clock, tp, slp,
               timerUnlock, tmHist, tops>>
vars == <<schedVars, taskVars, thrVars, histVars, semaVars, wgVars, timerVars, rec>>

\* ------------------------------------------------------------- positions
UserCtx == [pc |-> "user", ret |-> "none", sched |-> NULL, task |-> NULL]
ExitedCtx == [pc |-> "exited", ret |-> "none", sched |-> NULL, task |-> NULL]

\* entry of schedule_task(thread), called from `r`, lines 125..135
LoopCtx(r, s) == [pc |-> "st_loop", ret |-> r, sched |-> s, task |-> NULL]

\* where schedule_task returns to
ReturnTo(c) ==
    CASE c.ret = "suspend" -> UserCtx
      [] c.ret = "fiber"   -> ExitedCtx
      [] c.ret = "waitfor" -> [pc |-> "wf_check", ret |-> "none",
                               sched |-> c.sched, task |-> NULL]

NoRT == [phase |-> "none", sched |-> NULL, base |-> 0]

\* ---------------------------------------------------------------- TaskList
taskListPush_AtFront(f, l, nx, task) ==
    [front |-> task,
     last  |-> IF l # NULL THEN l ELSE task,
     next  |-> [nx EXCEPT ![task] = f]]

taskListPush(f, l, nx, task) ==
    LET nx1 == IF l # NULL THEN [nx EXCEPT ![l] = task] ELSE nx
    IN  [front |-> IF l # NULL THEN f ELSE task,
         last  |-> task,
         next  |-> [nx1 EXCEPT ![task] = NULL]]

taskListPop(f, l, nx) ==
    IF f = NULL
    THEN [task |-> NULL, front |-> f, last |-> l, next |-> nx]
    ELSE [task  |-> f,
          front |-> nx[f],
          last  |-> IF nx[f] = NULL THEN NULL ELSE l,
          next  |-> [nx EXCEPT ![f] = NULL]]

\* the tasks reachable from a list head, in order (the walk taskListPop makes)
RECURSIVE ListFrom(_, _, _)
ListFrom(f, nx, fuel) ==
    IF f = NULL \/ fuel = 0 THEN <<>>
    ELSE <<f>> \o ListFrom(nx[f], nx, fuel - 1)

ListLimit == Cardinality(AllTasks) + 1

RunQueue(s) == ListFrom(front[s], next, ListLimit)
CompletedQueue(s) == ListFrom(cfront[s], next, ListLimit)

\* the enqueue history after a push of t: a task still waiting to be popped
\* keeps the place of its first push
Enqueued(q, t) == IF \E i \in 1..Len(q) : q[i] = t THEN q ELSE Append(q, t)

\* q without the first occurrence of t
RemoveFirst(q, t) ==
    IF \E i \in 1..Len(q) : q[i] = t
    THEN LET k == CHOOSE i \in 1..Len(q) :
                     q[i] = t /\ \A j \in 1..(i - 1) : q[j] # t
         IN  SubSeq(q, 1, k - 1) \o SubSeq(q, k + 1, Len(q))
    ELSE q

SeqToSet(q) == {q[i] : i \in 1..Len(q)}

\* condition_variable::notify_one: releases one waiter, if there is one
NotifyOne(w) == IF w = {} THEN {{}} ELSE {w \ {x} : x \in w}

\* ------------------------------------------------------- semaphore data
c_rootTableSize == 251

\* rootFromAddr, sema.cpp lines 57..61: the index into g_roots
rootFromAddr(addr) == (addr \div 8) % c_rootTableSize

\* the address of each Sema object: the first two fall into one root bucket,
\* every further one into a bucket of its own
SemaAddr(S) == IF S = 1 THEN 8 ELSE 8 * (c_rootTableSize + S - 1)

RootOf(S) == rootFromAddr(SemaAddr(S))
Roots == {RootOf(S) : S \in Semas}

\* a task that is not inside a Sema function
SemaUser == [pc |-> "user", stage |-> "none", sema |-> NULL, v |-> 0, w |-> NULL]

\* g_roots zero-initialised, every Sema constructed with `permits`
SemaInitWith(permits) ==
    /\ initial = permits
    /\ sem = permits
    /\ rootLock = [r \in Roots |-> NULL]
    /\ rootHead = [r \in Roots |-> NULL]
    /\ rootWaiters = [r \in Roots |-> 0]
    /\ wnext = [t \in Tasks |-> NULL]
    /\ wsema = [t \in Tasks |-> NULL]
    /\ sp = [t \in Tasks |-> SemaUser]
    /\ unlockPending = [th \in Threads |-> NULL]
    /\ nRel = [S \in Semas |-> 0]
    /\ nAcq = [S \in Semas |-> 0]
    /\ nPost = [S \in Semas |-> 0]
    /\ holding = [t \in Tasks |-> [S \in Semas |-> 0]]
    /\ sops = 0

\* ------------------------------------------------------- wait group data
\* a task that is not inside a WaitGroup function
WgUser == [pc |-> "user", count |-> 0, waiters |-> 0, delta |-> 0, n |-> 0]

\* a WaitGroup as constructed: state 0
WgInit ==
    /\ wgState = [count |-> 0, waiters |-> 0]
    /\ wp = [t \in Tasks |-> WgUser]
    /\ wreg = [t \in Tasks |-> "none"]
    /\ wgRegs = 0
    /\ wgRels = 0
    /\ wgBad = FALSE
    /\ wgCalls = [plus |-> 0, minus |-> 0, waits |-> 0]

\* the TimerContext as constructed: no timers, nobody inside its functions
TimerDataInit ==
    /\ timers = <<>>
    /\ when = [t \in Tasks |-> 0]
    /\ internalHeapIndex = [t \in Tasks |-> 0 - 1]
    /\ timerLock = NULL
    /\ clock = 0
    /\ tp = [pc |-> "lock", now |-> 0, t |-> NULL, until |-> 0 - 1, notified |-> FALSE]
    /\ slp = [t \in Tasks |-> "user"]
    /\ timerUnlock = [th \in Threads |-> FALSE]
    /\ tmHist = [sleeps |-> [t \in Tasks |-> 0], wakes |-> [t \in Tasks |-> 0],
                 resumes |-> [t \in Tasks |-> 0]]
    /\ tops = 0
    /\ rec = <<>>

InitWith(c) ==
    /\ WgInit
    /\ TimerDataInit
    /\ SemaInitWith([S \in Semas |-> 0])
    /\ conf = c
    /\ activeThreads = [s \in Scheds |-> 0]
    /\ front = [s \in Scheds |-> NULL]
    /\ last = [s \in Scheds |-> NULL]
    /\ cfront = [s \in Scheds |-> NULL]
    /\ clast = [s \in Scheds |-> NULL]
    /\ cvWait = [s \in Scheds |-> {}]
    /\ next = [t \in AllTasks |-> NULL]
    /\ ntasks = 0
    /\ freed = {}
    /\ saved = [t \in AllTasks |-> UserCtx]
    /\ tls = [th \in Threads |-> NULL]
    /\ currentTask = [th \in Threads |-> NULL]
    /\ cur = [th \in Threads |-> InitialTask(th)]
    /\ ctx = [th \in Threads |-> UserCtx]
    /\ crashed = FALSE
    /\ owner = [t \in AllTasks |-> NULL]
    /\ wakePending = {}
    /\ enq = [s \in Scheds |-> <<>>]
    /\ rt = [th \in Threads |-> NoRT]
    /\ inWait = {}
    /\ ops = 0

\* the tasks of the round-robin workload record their identity at each call
\* of yield()
Recording == "plan" \in DOMAIN conf /\ conf.plan = "rr"

\* how many tasks user code spawns, and how long a run queue it builds
TaskLimit == IF Recording THEN conf.k ELSE MaxTasks
QueueLimit == IF Recording THEN RRK + 1 ELSE MaxQueue

\* user code uses both schedulers
Init == InitWith([nsched |-> NScheds, budget |-> MaxOps])

\* user code uses one scheduler, and makes more calls
InitOne == InitWith([nsched |-> 1, budget |-> MaxOpsOne])

\* user code on thread th is between two API calls
AtUser(th) == ~crashed /\ ctx[th].pc = "user" /\ ops < conf.budget

\* a round trip is disturbed by any other change of s.activeThreads
DisturbRT(th, s) ==
    [x \in Threads |-> IF x = th \/ rt[x].sched = s THEN NoRT ELSE rt[x]]

\* --------------------------------------------------------------- scheduler
\* sched::attachToThread: lines 200..212 (the caller is not attached)
attachToThread(th, s) ==
    /\ AtUser(th)
    /\ tls[th] = NULL
    /\ activeThreads' = [activeThreads EXCEPT ![s] = @ + 1]
    /\ tls' = [tls EXCEPT ![th] = s]
    /\ currentTask' = [currentTask EXCEPT ![th] = InitialTask(th)]
    /\ cur' = [cur EXCEPT ![th] = InitialTask(th)]
    /\ rt' = [DisturbRT(th, s) EXCEPT
                ![th] = [phase |-> "attached", sched |-> s, base |-> activeThreads[s]]]
    /\ ops' = ops + 1
    /\ UNCHANGED <<semaVars, wgVars, timerVars, rec, front, last, cfront, clast, cvWait, taskVars, ctx, crashed,
                   owner, wakePending, enq, inWait, conf>>

\* sched::detachFromThread called by an attached thread on its initial task:
\* `if (nullptr != thread) { ...; return; }` at lines 219..221 returns before
\* anything is changed (lines 230..242 are only reached with thread == nullptr)
detachFromThread(th, s) ==
    /\ AtUser(th)
    /\ tls[th] = s
    /\ currentTask[th] = InitialTask(th)
    /\ rt' = [rt EXCEPT ![th] =
                IF rt[th].phase = "attached" /\ rt[th].sched = s
                THEN [rt[th] EXCEPT !.phase = "detached"]
                ELSE NoRT]
    /\ ops' = ops + 1
    /\ UNCHANGED <<semaVars, wgVars, timerVars, rec, schedVars, taskVars, thrVars, owner, wakePending, enq, inWait, conf>>

\* lines 266..270: release the thread fiber, destroy the SchedulerThread
Detached(th) ==
    /\ tls' = [tls EXCEPT ![th] = NULL]
    /\ currentTask' = [currentTask EXCEPT ![th] = NULL]
    /\ ctx' = [ctx EXCEPT ![th] = UserCtx]
    /\ inWait' = inWait \ {th}

\* sched::waitForOtherThreadsAndDetach, lines 257..260 or 257..270
waitForOtherThreadsAndDetach(th, s) ==
    /\ AtUser(th)
    /\ tls[th] = s
    /\ currentTask[th] = InitialTask(th)
    /\ activeThreads' = [activeThreads EXCEPT ![s] = @ - 1]
    /\ IF activeThreads'[s] > 0
       THEN /\ ctx' = [ctx EXCEPT ![th] = LoopCtx("waitfor", s)]
            /\ inWait' = inWait \cup {th}
            /\ UNCHANGED <<tls, currentTask>>
       ELSE Detached(th)
    /\ rt' = DisturbRT(th, s)
    /\ ops' = ops + 1
    /\ UNCHANGED <<semaVars, wgVars, timerVars, rec, front, last, cfront, clast, cvWait, taskVars, cur, crashed,
                   owner, wakePending, enq, conf>>

\* the loop of waitForOtherThreadsAndDetach after schedule_task returned,
\* lines 262..270
WaitForCheck(th) ==
    /\ ~crashed
    /\ ctx[th].pc = "wf_check"
    /\ IF activeThreads[ctx[th].sched] > 0
       THEN /\ ctx' = [ctx EXCEPT ![th] = LoopCtx("waitfor", ctx[th].sched)]
            /\ UNCHANGED <<tls, currentTask, inWait>>
       ELSE Detached(th)
    /\ UNCHANGED <<semaVars, wgVars, timerVars, rec, schedVars, taskVars, cur, crashed, owner, wakePending, enq, rt,
                   conf, ops>>

\* schedule_task, one iteration of `while (nullptr == task)`, lines 138..148
ScheduleLoop(th) ==
    LET s == ctx[th].sched
        p == taskListPop(front[s], last[s], next)
    IN  /\ ~crashed
        /\ ctx[th].pc = "st_loop"
        /\ IF activeThreads[s] = 0
           THEN /\ ctx' = [ctx EXCEPT ![th] = ReturnTo(ctx[th])]
                /\ UNCHANGED <<front, last, next, cvWait, enq>>
           ELSE IF p.task = NULL
           THEN /\ cvWait' = [cvWait EXCEPT ![s] = @ \cup {th}]
                /\ ctx' = [ctx EXCEPT ![th].pc = "st_wait"]
                /\ UNCHANGED <<front, last, next, enq>>
           ELSE /\ front' = [front EXCEPT ![s] = p.front]
                /\ last' = [last EXCEPT ![s] = p.last]
                /\ next' = p.next
                /\ enq' = [enq EXCEPT ![s] = RemoveFirst(@, p.task)]
                /\ ctx' = [ctx EXCEPT ![th].pc = "st_switch", ![th].task = p.task]
                /\ UNCHANGED cvWait
        /\ UNCHANGED <<semaVars, wgVars, timerVars, rec, activeThreads, cfront, clast, ntasks, freed, saved,
                       tls, currentTask, cur, crashed, owner, wakePending, rt, inWait,
                       conf, ops>>

\* taskListCondvar.wait returns after a notification, line 146
WaitReturn(th) ==
    /\ ~crashed
    /\ ctx[th].pc = "st_wait"
    /\ th \notin cvWait[ctx[th].sched]
    /\ ctx' = [ctx EXCEPT ![th].pc = "st_loop"]
    /\ UNCHANGED <<semaVars, wgVars, timerVars, rec, schedVars, taskVars, tls, currentTask, cur, crashed, histVars>>

\* std::condition_variable::wait may wake spuriously, line 146
SpuriousWakeup(th) ==
    /\ ~crashed
    /\ ctx[th].pc = "st_wait"
    /\ th \in cvWait[ctx[th].sched]
    /\ cvWait' = [cvWait EXCEPT ![ctx[th].sched] = @ \ {th}]
    /\ UNCHANGED <<semaVars, wgVars, timerVars, rec, activeThreads, front, last, cfront, clast, taskVars, thrVars,
                   histVars>>

\* a thread is executing the fiber of task t
Executing(th, t) == cur[th] = t /\ ctx[th].pc # "exited"

\* schedule_task, lines 150..152: thread->currentTask = task; switchToFiber.
\* Switching into a released fiber or into a fiber that a thread is executing
\* (this thread included) is undefined: the process may fault, or the thread
\* resumes the context last stored in that fiber.
SwitchToTask(th) ==
    LET task == ctx[th].task
        outgoing == currentTask[th]
        hazard == task \in freed \/ \E x \in Threads : Executing(x, task)
        sv == [saved EXCEPT ![outgoing] =
                 [pc |-> "st_drain", ret |-> ctx[th].ret,
                  sched |-> ctx[th].sched, task |-> NULL]]
    IN  /\ ~crashed
        /\ ctx[th].pc = "st_switch"
        /\ currentTask' = [currentTask EXCEPT ![th] = task]
        /\ \/ /\ saved' = sv
              /\ cur' = [cur EXCEPT ![th] = task]
              /\ ctx' = [ctx EXCEPT ![th] = sv[task]]
              /\ UNCHANGED crashed
           \/ /\ hazard
              /\ crashed' = TRUE
              /\ UNCHANGED <<saved, cur, ctx>>
        /\ UNCHANGED <<semaVars, wgVars, timerVars, rec, schedVars, next, ntasks, freed, tls, histVars>>

\* schedule_task, lines 154..163: delete completed tasks, then return.
\* Releasing a fiber that a thread is executing, or releasing one twice, is
\* undefined: the process may fault.
RECURSIVE DrainList(_, _, _, _)
DrainList(f, l, nx, acc) ==
    LET p == taskListPop(f, l, nx)
    IN  IF p.task = NULL
        THEN [front |-> p.front, last |-> p.last, next |-> p.next, released |-> acc]
        ELSE DrainList(p.front, p.last, p.next, acc \cup {p.task})

DrainCompleted(th) ==
    LET s == ctx[th].sched
        d == DrainList(cfront[s], clast[s], next, {})
        hazard == \E t \in d.released :
                     t \in freed \/ \E x \in Threads : Executing(x, t)
    IN  /\ ~crashed
        /\ ctx[th].pc = "st_drain"
        /\ cfront' = [cfront EXCEPT ![s] = d.front]
        /\ clast' = [clast EXCEPT ![s] = d.last]
        /\ next' = d.next
        /\ freed' = freed \cup d.released
        /\ \/ /\ ctx' = [ctx EXCEPT ![th] = ReturnTo(ctx[th])]
              /\ UNCHANGED crashed
           \/ /\ hazard
              /\ crashed' = TRUE
              /\ UNCHANGED ctx
        /\ UNCHANGED <<semaVars, wgVars, timerVars, rec, activeThreads, front, last, cvWait, ntasks, saved,
                       tls, currentTask, cur, histVars>>

\* sched::spawn(scheduler, entry, param, stackSize), lines 306..327
spawn(th, s) ==
    LET task == ntasks + 1
        p == taskListPush(front[s], last[s], next, task)
    IN  /\ AtUser(th)
        /\ ntasks < TaskLimit
        /\ Len(enq[s]) < QueueLimit
        /\ ntasks' = task
        /\ front' = [front EXCEPT ![s] = p.front]
        /\ last' = [last EXCEPT ![s] = p.last]
        /\ next' = p.next
        /\ \E w \in NotifyOne(cvWait[s]) : cvWait' = [cvWait EXCEPT ![s] = w]
        /\ owner' = [owner EXCEPT ![task] = s]
        /\ enq' = [enq EXCEPT ![s] = Enqueued(@, task)]
        /\ rt' = [rt EXCEPT ![th] = NoRT]
        /\ ops' = ops + 1
        /\ UNCHANGED <<semaVars, wgVars, timerVars, rec, activeThreads, cfront, clast, freed, saved, thrVars,
                       wakePending, inWait, conf>>

\* sched::wake(task) called on thread th, lines 365..381.  Without a
\* SchedulerThread on the calling thread, line 374 dereferences nullptr.
wake(th, task) ==
    LET s == tls[th]
        p == taskListPush(front[s], last[s], next, task)
    IN  IF s = NULL
        THEN /\ crashed' = TRUE
             /\ UNCHANGED <<front, last, next, cvWait, enq>>
        ELSE /\ front' = [front EXCEPT ![s] = p.front]
             /\ last' = [last EXCEPT ![s] = p.last]
             /\ next' = p.next
             /\ \E w \in NotifyOne(cvWait[s]) : cvWait' = [cvWait EXCEPT ![s] = w]
             /\ enq' = [enq EXCEPT ![s] = Enqueued(@, task)]
             /\ UNCHANGED crashed

\* user code calls wake(t) for a task that suspended itself, once per suspend
Wake(th, task) ==
    /\ AtUser(th)
    /\ task \in wakePending
    /\ task # cur[th]
    /\ tls[th] # NULL => Len(enq[tls[th]]) < MaxQueue
    /\ wake(th, task)
    /\ wakePending' = wakePending \ {task}
    /\ rt' = [rt EXCEPT ![th] = NoRT]
    /\ ops' = ops + 1
    /\ UNCHANGED <<semaVars, wgVars, timerVars, rec, activeThreads, cfront, clast, ntasks, freed, saved,
                   tls, currentTask, cur, ctx, owner, inWait, conf>>

\* sched::suspendSelf, lines 351..362
suspendSelf(th) ==
    ctx' = [ctx EXCEPT ![th] = LoopCtx("suspend", tls[th])]

SuspendSelf(th) ==
    /\ AtUser(th)
    /\ tls[th] # NULL
    /\ suspendSelf(th)
    /\ wakePending' = wakePending \cup {currentTask[th]}
    /\ rt' = [rt EXCEPT ![th] = NoRT]
    /\ ops' = ops + 1
    /\ UNCHANGED <<semaVars, wgVars, timerVars, rec, schedVars, taskVars, tls, currentTask, cur, crashed, owner, enq,
                   inWait, conf>>

\* sched::yield, lines 342..348: wake(getCurrentTask()); suspendSelf()
yield(th) ==
    /\ AtUser(th)
    /\ tls[th] # NULL
    /\ Len(enq[tls[th]]) < QueueLimit
    /\ wake(th, currentTask[th])
    /\ suspendSelf(th)
    /\ rt' = [rt EXCEPT ![th] = NoRT]
    /\ ops' = ops + 1
    /\ rec' = IF Recording /\ currentTask[th] \in Tasks
              THEN Append(rec, currentTask[th]) ELSE rec
    /\ UNCHANGED <<semaVars, wgVars, timerVars, activeThreads, cfront, clast, ntasks, freed, saved,
                   tls, currentTask, cur, owner, wakePending, inWait, conf>>

\* schedule_task called by taskFiber, lines 125..134: the completed task is
\* thread->currentTask, and line 133 reads its record (outgoingTask->fiber).
\* Reading a destroyed record is undefined: the process may fault.
ScheduleEntry(th) ==
    /\ ~crashed
    /\ ctx[th].pc = "st_entry"
    /\ \/ /\ ctx' = [ctx EXCEPT ![th].pc = "st_loop"]
          /\ UNCHANGED crashed
       \/ /\ currentTask[th] \in freed
          /\ crashed' = TRUE
          /\ UNCHANGED ctx
    /\ UNCHANGED <<semaVars, wgVars, timerVars, rec, schedVars, taskVars, tls, currentTask, cur,
                   histVars>>

\* taskFiber, lines 291..302: the entry function returns; the task appends
\* itself to taskListCompleted and calls schedule_task on its own fiber
taskFiber(th) ==
    LET task == cur[th]
        s == tls[th]
        p == taskListPush(cfront[s], clast[s], next, task)
    IN  /\ ~crashed
        /\ ctx[th].pc = "user"
        /\ task \in Tasks
        /\ IF s = NULL
           THEN /\ crashed' = TRUE
                /\ UNCHANGED <<cfront, clast, next, ctx>>
           ELSE /\ cfront' = [cfront EXCEPT ![s] = p.front]
                /\ clast' = [clast EXCEPT ![s] = p.last]
                /\ next' = p.next
                /\ ctx' = [ctx EXCEPT ![th] = [LoopCtx("fiber", s) EXCEPT !.pc = "st_entry"]]
                /\ UNCHANGED crashed
        /\ UNCHANGED <<semaVars, wgVars, timerVars, rec, activeThreads, front, last, cvWait, ntasks, freed, saved,
                       tls, currentTask, cur, histVars>>

\* the steps a thread takes inside the library, once called
Internal(th) ==
    \/ WaitForCheck(th)
    \/ ScheduleEntry(th)
    \/ ScheduleLoop(th)
    \/ WaitReturn(th)
    \/ SwitchToTask(th)
    \/ DrainCompleted(th)

UserScheds == 1..conf.nsched

Next ==
    \/ \E th \in Threads, s \in UserScheds : attachToThread(th, s)
    \/ \E th \in Threads, s \in UserScheds : detachFromThread(th, s)
    \/ \E th \in Threads, s \in UserScheds : waitForOtherThreadsAndDetach(th, s)
    \/ \E th \in Threads, s \in UserScheds : spawn(th, s)
    \/ \E th \in Threads, t \in AllTasks : Wake(th, t)
    \/ \E th \in Threads : SuspendSelf(th)
    \/ \E th \in Threads : yield(th)
    \/ \E th \in Threads : taskFiber(th)
    \/ \E th \in Threads : WaitForCheck(th)
    \/ \E th \in Threads : ScheduleEntry(th)
    \/ \E th \in Threads : ScheduleLoop(th)
    \/ \E th \in Threads : WaitReturn(th)
    \/ \E th \in Threads : SpuriousWakeup(th)
    \/ \E th \in Threads : SwitchToTask(th)
    \/ \E th \in Threads : DrainCompleted(th)

Spec == Init /\ [][Next]_vars

SpecOne == InitOne /\ [][Next]_vars

\* the operating system runs every thread that is inside the library, and
\* every task's entry function returns
FairSpec ==
    /\ Spec
    /\ \A th \in Threads : WF_vars(Internal(th))
    /\ \A th \in Threads : WF_vars(taskFiber(th))

\* --------------------------------------------------------------- semaphore
\* The tasks of this part run under the scheduling loop the primitives are
\* written against: a thread on its scheduler fiber pops a task and runs it
\* until the task parks or returns.

OnThread(t) == \E th \in Threads : cur[th] = t
ThreadOf(t) == CHOOSE th \in Threads : cur[th] = t

\* NThreads threads attached to scheduler 1 and idle in its loop, the tasks
\* 1..NSemaTasks spawned on it in that order, the Semas constructed
SemaInitConf(c) ==
    /\ conf = c
    /\ activeThreads = [s \in Scheds |-> IF s = 1 THEN NThreads ELSE 0]
    /\ front = [s \in Scheds |-> IF s = 1 THEN 1 ELSE NULL]
    /\ last = [s \in Scheds |-> IF s = 1 THEN NSemaTasks ELSE NULL]
    /\ cfront = [s \in Scheds |-> NULL]
    /\ clast = [s \in Scheds |-> NULL]
    /\ cvWait = [s \in Scheds |-> {}]
    /\ next = [t \in AllTasks |->
                 IF t \in 1..(NSemaTasks - 1) THEN t + 1 ELSE NULL]
    /\ ntasks = NSemaTasks
    /\ freed = {}
    /\ saved = [t \in AllTasks |-> UserCtx]
    /\ tls = [th \in Threads |-> 1]
    /\ currentTask = [th \in Threads |-> InitialTask(th)]
    /\ cur = [th \in Threads |-> InitialTask(th)]
    /\ ctx = [th \in Threads |-> UserCtx]
    /\ crashed = FALSE
    /\ owner = [t \in AllTasks |-> IF t \in SemaTasks THEN 1 ELSE NULL]
    /\ wakePending = {}
    /\ enq = [s \in Scheds |->
                IF s = 1 THEN [i \in 1..NSemaTasks |-> i] ELSE <<>>]
    /\ rt = [th \in Threads |-> NoRT]
    /\ inWait = {}
    /\ ops = 0
    /\ \E permits \in [Semas -> 0..MaxPermits] : SemaInitWith(permits)
    /\ WgInit
    /\ TimerDataInit

SemaInit == SemaInitConf([nsched |-> 1, budget |-> MaxSemaOps])

\* the same, for user code that makes fewer calls
SemaLiveInit == SemaInitConf([nsched |-> 1, budget |-> MaxLiveOps])

\* what no Sema step changes
semaFixed == <<activeThreads, cfront, clast, ntasks, freed, saved, tls, ctx,
               owner, wakePending, rt, inWait, conf, ops, wgVars, timerVars, rec>>
queueVars == <<front, last, next, cvWait, enq, crashed>>
rootVars == <<rootLock, rootHead, rootWaiters, wnext, wsema>>
semaHist == <<initial, nRel, nAcq, nPost>>

\* task t is running user code and may make one more Sema call
SemaAtUser(t) ==
    /\ ~crashed
    /\ OnThread(t)
    /\ sp[t].pc = "user"
    /\ sops < conf.budget

\* the scheduler fiber of an idle thread pops the next task and runs it
SemaDispatch(th) ==
    LET p == taskListPop(front[1], last[1], next)
    IN  /\ ~crashed
        /\ cur[th] = InitialTask(th)
        /\ unlockPending[th] = NULL
        /\ p.task # NULL
        /\ front' = [front EXCEPT ![1] = p.front]
        /\ last' = [last EXCEPT ![1] = p.last]
        /\ next' = p.next
        /\ enq' = [enq EXCEPT ![1] = RemoveFirst(@, p.task)]
        /\ cur' = [cur EXCEPT ![th] = p.task]
        /\ currentTask' = [currentTask EXCEPT ![th] = p.task]
        /\ UNCHANGED <<semaFixed, cvWait, crashed, semaVars>>

\* the entry function of task t returns; its thread is idle again
SemaTaskReturn(t) ==
    /\ ~crashed
    /\ OnThread(t)
    /\ sp[t].pc = "user"
    /\ sp' = [sp EXCEPT ![t].pc = "done"]
    /\ cur' = [cur EXCEPT ![ThreadOf(t)] = InitialTask(ThreadOf(t))]
    /\ currentTask' = [currentTask EXCEPT ![ThreadOf(t)] = InitialTask(ThreadOf(t))]
    /\ UNCHANGED <<semaFixed, queueVars, rootVars, sem, unlockPending,
                   semaHist, holding, sops>>

\* suspendWithUnlock(task, unlock, root): the task is parked and its thread
\* is back on the scheduler fiber, which owes the unlock callback
suspendWithUnlock(th, root) ==
    /\ cur' = [cur EXCEPT ![th] = InitialTask(th)]
    /\ currentTask' = [currentTask EXCEPT ![th] = InitialTask(th)]
    /\ unlockPending' = [unlockPending EXCEPT ![th] = root]

\* the scheduler fiber invokes the callback of sema.cpp lines 112..115
SchedUnlock(th) ==
    /\ ~crashed
    /\ unlockPending[th] # NULL
    /\ rootLock' = [rootLock EXCEPT ![unlockPending[th]] = NULL]
    /\ unlockPending' = [unlockPending EXCEPT ![th] = NULL]
    /\ UNCHANGED <<semaFixed, queueVars, cur, currentTask, rootHead,
                   rootWaiters, wnext, wsema, sem, sp, semaHist, holding, sops>>

\* tryAcquire, one pass of the loop at sema.cpp lines 67..77 with the local
\* `value` and the counter's current content `s`
tryAcquire_NoZeroTest(value, s) ==
    IF s = value
    THEN [ret |-> "true", sem |-> value - 1, value |-> value]
    ELSE [ret |-> "retry", sem |-> s, value |-> s]

tryAcquire(value, s) ==
    IF value = 0
    THEN [ret |-> "false", sem |-> s, value |-> value]
    ELSE IF s = value
    THEN [ret |-> "true", sem |-> value - 1, value |-> value]
    ELSE [ret |-> "retry", sem |-> s, value |-> s]

\* AfterTryAcquire with try_acquire() falling into the slow path of acquire()
AfterTryAcquire_TryBlocks(stage, ret) ==
    CASE stage = "fast"   -> IF ret = "true" THEN "user" ELSE "a_lock"
      [] stage = "locked" -> IF ret = "true" THEN "a_dec" ELSE "a_link"
      [] stage = "woken"  -> IF ret = "true" THEN "user" ELSE "a_lock"
      [] stage = "try"    -> IF ret = "true" THEN "user" ELSE "a_lock"

\* where tryAcquire returns to: lines 83..86, 98..104, 117..121, 127
AfterTryAcquire(stage, ret) ==
    CASE stage = "fast"   -> IF ret = "true" THEN "user" ELSE "a_lock"
      [] stage = "locked" -> IF ret = "true" THEN "a_dec" ELSE "a_link"
      [] stage = "woken"  -> IF ret = "true" THEN "user" ELSE "a_lock"
      [] stage = "try"    -> "user"

\* the permits of t after an acquire of S returned (true)
Acquired(t, S) == [holding EXCEPT ![t][S] = @ + 1]

\* Sema::acquire, line 83, and tryAcquire line 65: value = sem->load()
SemaAcquire(t, S) ==
    /\ SemaAtUser(t)
    /\ sp' = [sp EXCEPT ![t] = [pc |-> "ta_cas", stage |-> "fast", sema |-> S,
                               v |-> sem[S], w |-> NULL]]
    /\ sops' = sops + 1
    /\ UNCHANGED <<semaFixed, queueVars, cur, currentTask, rootVars, sem,
                   unlockPending, semaHist, holding>>

\* Sema::try_acquire, line 127, and tryAcquire line 65
SemaTryAcquire(t, S) ==
    /\ SemaAtUser(t)
    /\ sp' = [sp EXCEPT ![t] = [pc |-> "ta_cas", stage |-> "try", sema |-> S,
                               v |-> sem[S], w |-> NULL]]
    /\ sops' = sops + 1
    /\ UNCHANGED <<semaFixed, queueVars, cur, currentTask, rootVars, sem,
                   unlockPending, semaHist, holding>>

\* tryAcquire line 65 when called at line 98 or 117
TryAcquireLoad(t) ==
    /\ ~crashed
    /\ OnThread(t)
    /\ sp[t].pc = "ta_load"
    /\ sp' = [sp EXCEPT ![t].pc = "ta_cas", ![t].v = sem[sp[t].sema]]
    /\ UNCHANGED <<semaFixed, queueVars, cur, currentTask, rootVars, sem,
                   unlockPending, semaHist, holding, sops>>

\* tryAcquire lines 69..76, and the return to the caller
TryAcquireCas(t) ==
    LET S == sp[t].sema
        r == tryAcquire(sp[t].v, sem[S])
        to == AfterTryAcquire(sp[t].stage, r.ret)
    IN  /\ ~crashed
        /\ OnThread(t)
        /\ sp[t].pc = "ta_cas"
        /\ sem' = [sem EXCEPT ![S] = r.sem]
        /\ nAcq' = [nAcq EXCEPT ![S] = IF r.ret = "true" THEN @ + 1 ELSE @]
        /\ IF r.ret = "retry"
           THEN /\ sp' = [sp EXCEPT ![t].v = r.value]
                /\ UNCHANGED holding
           ELSE /\ sp' = [sp EXCEPT ![t] = IF to = "user" THEN SemaUser
                                          ELSE [sp[t] EXCEPT !.pc = to]]
                /\ holding' = IF to = "user" /\ r.ret = "true"
                              THEN Acquired(t, S) ELSE holding
        /\ UNCHANGED <<semaFixed, queueVars, cur, currentTask, rootVars,
                       unlockPending, initial, nRel, nPost, sops>>

\* AcquireLock without line 95
AcquireLock_NoCount(t) ==
    LET r == RootOf(sp[t].sema)
    IN  /\ ~crashed
        /\ OnThread(t)
        /\ sp[t].pc = "a_lock"
        /\ rootLock[r] = NULL
        /\ rootLock' = [rootLock EXCEPT ![r] = t]
        /\ sp' = [sp EXCEPT ![t].pc = "ta_load", ![t].stage = "locked"]
        /\ UNCHANGED <<semaFixed, queueVars, cur, currentTask, rootHead, wnext,
                       wsema, sem, unlockPending, semaHist, holding, sops,
                       rootWaiters>>

\* Sema::acquire lines 92..95: root->lock.lock(); root->waiters.fetch_add(1)
AcquireLock(t) ==
    LET r == RootOf(sp[t].sema)
    IN  /\ ~crashed
        /\ OnThread(t)
        /\ sp[t].pc = "a_lock"
        /\ rootLock[r] = NULL
        /\ rootLock' = [rootLock EXCEPT ![r] = t]
        /\ rootWaiters' = [rootWaiters EXCEPT ![r] = @ + 1]
        /\ sp' = [sp EXCEPT ![t].pc = "ta_load", ![t].stage = "locked"]
        /\ UNCHANGED <<semaFixed, queueVars, cur, currentTask, rootHead, wnext,
                       wsema, sem, unlockPending, semaHist, holding, sops>>

\* AcquireBackOut without the fetch_sub of line 100
AcquireBackOut_KeepCount(t) ==
    LET S == sp[t].sema
        r == RootOf(S)
    IN  /\ ~crashed
        /\ OnThread(t)
        /\ sp[t].pc = "a_dec"
        /\ UNCHANGED rootWaiters
        /\ rootLock' = [rootLock EXCEPT ![r] = NULL]
        /\ sp' = [sp EXCEPT ![t] = SemaUser]
        /\ holding' = Acquired(t, S)
        /\ UNCHANGED <<semaFixed, queueVars, cur, currentTask, rootHead, wnext,
                       wsema, sem, unlockPending, semaHist, sops>>

\* Sema::acquire lines 100..102: the permit was taken under the lock
AcquireBackOut(t) ==
    LET S == sp[t].sema
        r == RootOf(S)
    IN  /\ ~crashed
        /\ OnThread(t)
        /\ sp[t].pc = "a_dec"
        /\ rootWaiters' = [rootWaiters EXCEPT ![r] = @ - 1]
        /\ rootLock' = [rootLock EXCEPT ![r] = NULL]
        /\ sp' = [sp EXCEPT ![t] = SemaUser]
        /\ holding' = Acquired(t, S)
        /\ UNCHANGED <<semaFixed, queueVars, cur, currentTask, rootHead, wnext,
                       wsema, sem, unlockPending, semaHist, sops>>

\* Sema::acquire lines 106..115: link the Waiter at the head of the root's
\* list and park; the task resumes at line 117
AcquirePark(t) ==
    LET S == sp[t].sema
        r == RootOf(S)
    IN  /\ ~crashed
        /\ OnThread(t)
        /\ sp[t].pc = "a_link"
        /\ wnext' = [wnext EXCEPT ![t] = rootHead[r]]
        /\ wsema' = [wsema EXCEPT ![t] = S]
        /\ rootHead' = [rootHead EXCEPT ![r] = t]
        /\ suspendWithUnlock(ThreadOf(t), r)
        /\ sp' = [sp EXCEPT ![t].pc = "ta_load", ![t].stage = "woken"]
        /\ UNCHANGED <<semaFixed, queueVars, rootLock, rootWaiters, sem,
                       semaHist, holding, sops>>

\* Sema::release line 133: s.fetch_add(1)
SemaRelease(t, S) ==
    /\ SemaAtUser(t)
    /\ sem' = [sem EXCEPT ![S] = @ + 1]
    /\ nRel' = [nRel EXCEPT ![S] = @ + 1]
    /\ IF holding[t][S] > 0
       THEN /\ holding' = [holding EXCEPT ![t][S] = @ - 1]
            /\ UNCHANGED nPost
       ELSE /\ nPost' = [nPost EXCEPT ![S] = @ + 1]
            /\ UNCHANGED holding
    /\ sp' = [sp EXCEPT ![t] = [pc |-> "r_check", stage |-> "none", sema |-> S,
                               v |-> 0, w |-> NULL]]
    /\ sops' = sops + 1
    /\ UNCHANGED <<semaFixed, queueVars, cur, currentTask, rootVars,
                   unlockPending, initial, nAcq>>

\* Sema::release lines 136..139
ReleaseCheck(t) ==
    /\ ~crashed
    /\ OnThread(t)
    /\ sp[t].pc = "r_check"
    /\ sp' = [sp EXCEPT ![t] = IF rootWaiters[RootOf(sp[t].sema)] = 0
                               THEN SemaUser ELSE [sp[t] EXCEPT !.pc = "r_lock"]]
    /\ UNCHANGED <<semaFixed, queueVars, cur, currentTask, rootVars, sem,
                   unlockPending, semaHist, holding, sops>>

\* Sema::release line 154: if (w->sema == this)
WaiterMatches_Any(ws, w, S) == TRUE
WaiterMatches(ws, w, S) == ws[w] = S

\* the loop of Sema::release at line 152: the first Waiter of S from w on
RECURSIVE FindWaiter(_, _, _, _, _)
FindWaiter(w, wn, ws, S, fuel) ==
    IF w = NULL \/ fuel = 0 THEN NULL
    ELSE IF WaiterMatches(ws, w, S) THEN w
    ELSE FindWaiter(wn[w], wn, ws, S, fuel - 1)

\* the Waiters linked in the list of root r, head first
RootList(r) == ListFrom(rootHead[r], [t \in AllTasks |->
                   IF t \in Tasks THEN wnext[t] ELSE NULL], ListLimit)

\* Sema::release line 160: what *prev is set to, to unlink w
AfterUnlink_Same(wn, w) == w
AfterUnlink(wn, w) == wn[w]

\* Sema::release lines 143..164, the critical section of root->lock
ReleaseLocked(t) ==
    LET S == sp[t].sema
        r == RootOf(S)
        w == FindWaiter(rootHead[r], wnext, wsema, S, ListLimit)
    IN  /\ ~crashed
        /\ OnThread(t)
        /\ sp[t].pc = "r_lock"
        /\ rootLock[r] = NULL
        /\ IF rootWaiters[r] = 0 \/ w = NULL
           THEN /\ sp' = [sp EXCEPT ![t] = SemaUser]
                /\ UNCHANGED <<rootHead, rootWaiters, wnext>>
           ELSE /\ rootWaiters' = [rootWaiters EXCEPT ![r] = @ - 1]
                /\ IF rootHead[r] = w
                   THEN /\ rootHead' = [rootHead EXCEPT ![r] = AfterUnlink(wnext, w)]
                        /\ UNCHANGED wnext
                   ELSE /\ wnext' = [x \in Tasks |->
                                       IF wnext[x] = w /\ x \in SeqToSet(RootList(r))
                                       THEN AfterUnlink(wnext, w) ELSE wnext[x]]
                        /\ UNCHANGED rootHead
                /\ sp' = [sp EXCEPT ![t].pc = "r_wake", ![t].w = w]
        /\ UNCHANGED <<semaFixed, queueVars, cur, currentTask, rootLock, wsema,
                       sem, unlockPending, semaHist, holding, sops>>

\* Sema::release lines 166..169: wake(toAwake->owner)
ReleaseWake(t) ==
    /\ ~crashed
    /\ OnThread(t)
    /\ sp[t].pc = "r_wake"
    /\ wake(ThreadOf(t), sp[t].w)
    /\ sp' = [sp EXCEPT ![t] = SemaUser]
    /\ UNCHANGED <<semaFixed, cur, currentTask, rootVars, sem, unlockPending,
                   semaHist, holding, sops>>

SemaNext ==
    \/ \E th \in Threads : SemaDispatch(th)
    \/ \E th \in Threads : SchedUnlock(th)
    \/ \E t \in SemaTasks : SemaTaskReturn(t)
    \/ \E t \in SemaTasks, S \in Semas : SemaAcquire(t, S)
    \/ \E t \in SemaTasks, S \in Semas : SemaTryAcquire(t, S)
    \/ \E t \in SemaTasks, S \in Semas : SemaRelease(t, S)
    \/ \E t \in SemaTasks : TryAcquireLoad(t)
    \/ \E t \in SemaTasks : TryAcquireCas(t)
    \/ \E t \in SemaTasks : AcquireLock(t)
    \/ \E t \in SemaTasks : AcquireBackOut(t)
    \/ \E t \in SemaTasks : AcquirePark(t)
    \/ \E t \in SemaTasks : ReleaseCheck(t)
    \/ \E t \in SemaTasks : ReleaseLocked(t)
    \/ \E t \in SemaTasks : ReleaseWake(t)

SemaSpec == SemaInit /\ [][SemaNext]_vars

\* the steps task t takes inside the Sema functions once called, and the
\* return of its entry function
SemaInternal(t) ==
    \/ TryAcquireLoad(t)
    \/ TryAcquireCas(t)
    \/ AcquireLock(t)
    \/ AcquireBackOut(t)
    \/ AcquirePark(t)
    \/ ReleaseCheck(t)
    \/ ReleaseLocked(t)
    \/ ReleaseWake(t)
    \/ SemaTaskReturn(t)

\* tasks that use acquire() and release() only
SemaLiveNext ==
    \/ \E th \in Threads : SemaDispatch(th)
    \/ \E th \in Threads : SchedUnlock(th)
    \/ \E t \in SemaTasks : SemaTaskReturn(t)
    \/ \E t \in SemaTasks, S \in Semas : SemaAcquire(t, S)
    \/ \E t \in SemaTasks, S \in Semas : SemaRelease(t, S)
    \/ \E t \in SemaTasks : TryAcquireLoad(t)
    \/ \E t \in SemaTasks : TryAcquireCas(t)
    \/ \E t \in SemaTasks : AcquireLock(t)
    \/ \E t \in SemaTasks : AcquireBackOut(t)
    \/ \E t \in SemaTasks : AcquirePark(t)
    \/ \E t \in SemaTasks : ReleaseCheck(t)
    \/ \E t \in SemaTasks : ReleaseLocked(t)
    \/ \E t \in SemaTasks : ReleaseWake(t)

\* fair scheduling: an idle thread runs its scheduling loop, a task that is
\* on a thread keeps executing, and every entry function returns
SemaFairSpec ==
    /\ SemaLiveInit /\ [][SemaLiveNext]_vars
    /\ \A th \in Threads : WF_vars(SemaDispatch(th))
    /\ \A th \in Threads : WF_vars(SchedUnlock(th))
    /\ \A t \in SemaTasks : WF_vars(SemaInternal(t))

\* -------------------------------------------------------------- wait group
\* One WaitGroup; its member `sema` is Sema 1, constructed with no permit.
\* The two halves of the 64-bit state word are kept apart: count is
\* static_cast<int32_t>(st >> 32), waiters is static_cast<uint32_t>(st).
WgSema == 1

WgDeltas == (0 - 1)..MaxDelta \ {0}

wgFixed == <<activeThreads, cfront, clast, ntasks, freed, saved, tls, ctx,
             owner, wakePending, rt, inWait, conf, timerVars, rec>>

\* user code makes any calls
WgFree == [nsched |-> 1, budget |-> MaxWgOps, plan |-> "free", n |-> 0, w |-> 0]

\* user code makes add(+RoundN), then RoundN calls add(-1), and RoundW calls
\* wait() at any time
WgRound == [nsched |-> 1, budget |-> 1 + RoundN + RoundW, plan |-> "round",
            n |-> RoundN, w |-> RoundW]

WgSpecInit ==
    /\ SemaInitConf(WgFree)
    /\ initial = [S \in Semas |-> 0]

WgRoundInit ==
    /\ SemaInitConf(WgRound)
    /\ initial = [S \in Semas |-> 0]

\* a task is inside add(delta) with delta > 0
AddingPlus == \E t \in SemaTasks : wp[t].delta > 0

\* the calls the plan lets user code make next
WgMayAdd(delta) ==
    conf.plan = "round" =>
        \/ delta = conf.n /\ wgCalls.plus = 0
        \/ delta = 0 - 1 /\ wgCalls.plus = 1 /\ ~AddingPlus /\ wgCalls.minus < conf.n

WgMayWait == conf.plan = "round" => wgCalls.waits < conf.w

\* task t is running user code and may make one more WaitGroup call
WgAtUser(t) ==
    /\ ~crashed
    /\ OnThread(t)
    /\ wp[t].pc = "user"
    /\ sp[t].pc = "user"
    /\ ops < conf.budget

\* the waiters registered before a step that leaves the count at c have seen
\* the count reach zero if c = 0
ZeroSeen(c) ==
    [t \in Tasks |-> IF c = 0 /\ wreg[t] = "registered" THEN "zeroed" ELSE wreg[t]]

\* WaitGroup::add, lines 34..37: state.fetch_add(shiftedDelta)
WgAdd(t, delta) ==
    LET c == wgState.count + delta
    IN  /\ WgAtUser(t)
        /\ WgMayAdd(delta)
        /\ wgCalls' = IF delta > 0 THEN [wgCalls EXCEPT !.plus = @ + 1]
                      ELSE [wgCalls EXCEPT !.minus = @ + 1]
        /\ wgState' = [wgState EXCEPT !.count = c]
        /\ wp' = [wp EXCEPT ![t] = [pc |-> "a_assert", count |-> c,
                                   waiters |-> wgState.waiters, delta |-> delta,
                                   n |-> 0]]
        /\ wreg' = ZeroSeen(c)
        /\ ops' = ops + 1
        /\ UNCHANGED <<wgFixed, queueVars, cur, currentTask, semaVars, wgRegs,
                       wgRels, wgBad>>

\* AfterAsserts releasing only when more than one waiter registered
AfterAsserts_NotForOne(w) ==
    IF w.count = 0 /\ w.waiters > 1 THEN [w EXCEPT !.pc = "a_verify"] ELSE WgUser

\* after the asserts of lines 39..40: line 43
AfterAsserts(w) ==
    IF w.count = 0 /\ w.waiters > 0 THEN [w EXCEPT !.pc = "a_verify"] ELSE WgUser

\* WaitGroup::add, lines 39..43.  A failed assert aborts the process; it is
\* compiled out when NDEBUG is defined.
WgAddAsserts(t) ==
    LET w == wp[t]
        holds == /\ w.count >= 0
                 /\ (w.waiters = 0 \/ w.delta <= 0 \/ w.count # w.delta)
    IN  /\ ~crashed
        /\ OnThread(t)
        /\ w.pc = "a_assert"
        /\ \/ /\ wp' = [wp EXCEPT ![t] = AfterAsserts(w)]
              /\ wgBad' = (wgBad \/ ~holds)
              /\ UNCHANGED crashed
           \/ /\ ~holds
              /\ crashed' = TRUE
              /\ UNCHANGED <<wp, wgBad>>
        /\ UNCHANGED <<wgFixed, wgCalls, front, last, next, cvWait, enq, cur, currentTask,
                       semaVars, wgState, wreg, wgRegs, wgRels, ops>>

\* WaitGroup::add, line 45: assert(state.load() == st)
WgAddVerify(t) ==
    LET w == wp[t]
        holds == wgState.count = w.count /\ wgState.waiters = w.waiters
    IN  /\ ~crashed
        /\ OnThread(t)
        /\ w.pc = "a_verify"
        /\ \/ /\ wp' = [wp EXCEPT ![t].pc = "a_store"]
              /\ wgBad' = (wgBad \/ ~holds)
              /\ UNCHANGED crashed
           \/ /\ ~holds
              /\ crashed' = TRUE
              /\ UNCHANGED <<wp, wgBad>>
        /\ UNCHANGED <<wgFixed, wgCalls, front, last, next, cvWait, enq, cur, currentTask,
                       semaVars, wgState, wreg, wgRegs, wgRels, ops>>

\* WaitGroup::add, line 47: state.store(0)
WgAddStore(t) ==
    /\ ~crashed
    /\ OnThread(t)
    /\ wp[t].pc = "a_store"
    /\ wgState' = [count |-> 0, waiters |-> 0]
    /\ wreg' = ZeroSeen(0)
    /\ wp' = [wp EXCEPT ![t].pc = "a_release", ![t].n = 0]
    /\ UNCHANGED <<wgFixed, wgCalls, queueVars, cur, currentTask, semaVars, wgRegs,
                   wgRels, ops, wgBad>>

\* WaitGroup::add, lines 48..51: the loop test, and sema.release() up to
\* Sema::release line 133
WgAddRelease(t) ==
    /\ ~crashed
    /\ OnThread(t)
    /\ wp[t].pc = "a_release"
    /\ sp[t].pc = "user"
    /\ IF wp[t].n = wp[t].waiters
       THEN /\ wp' = [wp EXCEPT ![t] = WgUser]
            /\ UNCHANGED <<sem, nRel, nPost, sp, wgRels>>
       ELSE /\ sem' = [sem EXCEPT ![WgSema] = @ + 1]
            /\ nRel' = [nRel EXCEPT ![WgSema] = @ + 1]
            /\ nPost' = [nPost EXCEPT ![WgSema] = @ + 1]
            /\ sp' = [sp EXCEPT ![t] = [pc |-> "r_check", stage |-> "none",
                                       sema |-> WgSema, v |-> 0, w |-> NULL]]
            /\ wp' = [wp EXCEPT ![t].n = @ + 1]
            /\ wgRels' = wgRels + 1
    /\ UNCHANGED <<wgFixed, wgCalls, queueVars, cur, currentTask, rootVars,
                   unlockPending, initial, nAcq, holding, sops, wgState, wreg,
                   wgRegs, ops, wgBad>>

\* WaitGroup::wait, line 58: state.load()
WgWait(t) ==
    /\ WgAtUser(t)
    /\ WgMayWait
    /\ wgCalls' = [wgCalls EXCEPT !.waits = @ + 1]
    /\ wp' = [wp EXCEPT ![t] = [pc |-> "w_test", count |-> wgState.count,
                               waiters |-> wgState.waiters, delta |-> 0, n |-> 0]]
    /\ wreg' = [wreg EXCEPT ![t] = "none"]
    /\ ops' = ops + 1
    /\ UNCHANGED <<wgFixed, queueVars, cur, currentTask, semaVars, wgState,
                   wgRegs, wgRels, wgBad>>

\* WaitGroup::wait, lines 61..69: return on a zero count, else try to
\* register with compare_exchange_weak(st, st + 1)
WgWaitTest(t) ==
    LET w == wp[t]
    IN  /\ ~crashed
        /\ OnThread(t)
        /\ w.pc = "w_test"
        /\ IF w.count = 0
           THEN /\ wp' = [wp EXCEPT ![t] = WgUser]
                /\ UNCHANGED <<wgState, wreg, wgRegs>>
           ELSE IF wgState.count = w.count /\ wgState.waiters = w.waiters
           THEN /\ wgState' = [wgState EXCEPT !.waiters = @ + 1]
                /\ wp' = [wp EXCEPT ![t].pc = "w_acquire"]
                /\ wreg' = [wreg EXCEPT ![t] = "registered"]
                /\ wgRegs' = wgRegs + 1
           ELSE /\ wp' = [wp EXCEPT ![t].count = wgState.count,
                                    ![t].waiters = wgState.waiters]
                /\ UNCHANGED <<wgState, wreg, wgRegs>>
        /\ UNCHANGED <<wgFixed, wgCalls, queueVars, cur, currentTask, semaVars, wgRels,
                       ops, wgBad>>

\* WaitGroup::wait, line 71: sema.acquire() up to tryAcquire line 65
WgWaitAcquire(t) ==
    /\ ~crashed
    /\ OnThread(t)
    /\ wp[t].pc = "w_acquire"
    /\ sp' = [sp EXCEPT ![t] = [pc |-> "ta_cas", stage |-> "fast",
                               sema |-> WgSema, v |-> sem[WgSema], w |-> NULL]]
    /\ wp' = [wp EXCEPT ![t].pc = "w_wait"]
    /\ UNCHANGED <<wgFixed, wgCalls, queueVars, cur, currentTask, rootVars, sem,
                   unlockPending, semaHist, holding, sops, wgState, wreg,
                   wgRegs, wgRels, ops, wgBad>>

\* WaitGroup::wait, line 72: sema.acquire() has returned
WgWaitReturn(t) ==
    /\ ~crashed
    /\ OnThread(t)
    /\ wp[t].pc = "w_wait"
    /\ sp[t].pc = "user"
    /\ wp' = [wp EXCEPT ![t] = WgUser]
    /\ UNCHANGED <<wgFixed, wgCalls, queueVars, cur, currentTask, semaVars, wgState,
                   wreg, wgRegs, wgRels, ops, wgBad>>

\* the entry function of task t returns
WgTaskReturn(t) ==
    /\ wp[t].pc = "user"
    /\ SemaTaskReturn(t)

WgNext ==
    \/ \E th \in Threads : SemaDispatch(th)
    \/ \E th \in Threads : SchedUnlock(th)
    \/ \E t \in SemaTasks : WgTaskReturn(t)
    \/ \E t \in SemaTasks, d \in WgDeltas : WgAdd(t, d)
    \/ \E t \in SemaTasks : WgAddAsserts(t)
    \/ \E t \in SemaTasks : WgAddVerify(t)
    \/ \E t \in SemaTasks : WgAddStore(t)
    \/ \E t \in SemaTasks : WgAddRelease(t)
    \/ \E t \in SemaTasks : WgWait(t)
    \/ \E t \in SemaTasks : WgWaitTest(t)
    \/ \E t \in SemaTasks : WgWaitAcquire(t)
    \/ \E t \in SemaTasks : WgWaitReturn(t)
    \/ \E t \in SemaTasks : TryAcquireLoad(t)
    \/ \E t \in SemaTasks : TryAcquireCas(t)
    \/ \E t \in SemaTasks : AcquireLock(t)
    \/ \E t \in SemaTasks : AcquireBackOut(t)
    \/ \E t \in SemaTasks : AcquirePark(t)
    \/ \E t \in SemaTasks : ReleaseCheck(t)
    \/ \E t \in SemaTasks : ReleaseLocked(t)
    \/ \E t \in SemaTasks : ReleaseWake(t)

WgSpec == WgSpecInit /\ [][WgNext]_vars

\* the steps task t takes inside the WaitGroup and Sema functions once
\* called, and the return of its entry function
WgInternal(t) ==
    \/ WgAddAsserts(t)
    \/ WgAddVerify(t)
    \/ WgAddStore(t)
    \/ WgAddRelease(t)
    \/ WgWaitTest(t)
    \/ WgWaitAcquire(t)
    \/ WgWaitReturn(t)
    \/ TryAcquireLoad(t)
    \/ TryAcquireCas(t)
    \/ AcquireLock(t)
    \/ AcquireBackOut(t)
    \/ AcquirePark(t)
    \/ ReleaseCheck(t)
    \/ ReleaseLocked(t)
    \/ ReleaseWake(t)
    \/ WgTaskReturn(t)

\* one round of the WaitGroup under fair scheduling
WgFairSpec ==
    /\ WgRoundInit /\ [][WgNext]_vars
    /\ \A th \in Threads : WF_vars(SemaDispatch(th))
    /\ \A th \in Threads : WF_vars(SchedUnlock(th))
    /\ \A t \in SemaTasks : WF_vars(WgInternal(t))

\* --------------------------------------------------------- round robin
\* One thread attaches to scheduler 1 and spawns conf.k tasks; each task
\* records its identity and calls yield(), conf.m times, and returns; the
\* thread's initial task then keeps calling yield() or suspendSelf().
RRThread == 1

RRInit ==
    \E k \in 1..RRK, m \in 1..RRM :
        InitWith([nsched |-> 1, budget |-> RRBudget, plan |-> "rr",
                  k |-> k, m |-> m])

\* the number of times task t recorded its identity
Recorded(t) == Cardinality({i \in 1..Len(rec) : rec[i] = t})

RRAttach == tls[RRThread] = NULL /\ ntasks = 0 /\ attachToThread(RRThread, 1)

RRSpawn == currentTask[RRThread] = InitialTask(RRThread) /\ spawn(RRThread, 1)

RRYield ==
    /\ IF currentTask[RRThread] \in Tasks
       THEN Recorded(currentTask[RRThread]) < conf.m
       ELSE ntasks = conf.k
    /\ yield(RRThread)

RRSuspend ==
    /\ currentTask[RRThread] = InitialTask(RRThread)
    /\ ntasks = conf.k
    /\ SuspendSelf(RRThread)

RRReturn ==
    /\ cur[RRThread] \in Tasks
    /\ currentTask[RRThread] = cur[RRThread]
    /\ Recorded(cur[RRThread]) = conf.m
    /\ taskFiber(RRThread)

RRNext ==
    \/ RRAttach
    \/ RRSpawn
    \/ RRYield
    \/ RRSuspend
    \/ RRReturn
    \/ ScheduleEntry(RRThread)
    \/ ScheduleLoop(RRThread)
    \/ WaitReturn(RRThread)
    \/ SpuriousWakeup(RRThread)
    \/ SwitchToTask(RRThread)
    \/ DrainCompleted(RRThread)

RRSpec == RRInit /\ [][RRNext]_vars

\* ------------------------------------------------------------------ timer
\* timer.cpp.  The thread that runs timerContextProcess is thread
\* TimerThread; thread 1 runs the scheduling loop of scheduler 1.
timerFixed == <<activeThreads, cfront, clast, ntasks, freed, saved, tls, ctx,
                owner, wakePending, rt, inWait, conf, ops, semaVars, wgVars, rec>>

\* the lock holder when timerContextProcess holds ctx->lock
TimerHolder == InitialTask(TimerThread)

\* c.tasks tasks spawned on scheduler 1 in the order 1..c.tasks,
\* thread 1 idle in its loop, the timer thread waiting on ctx->cond
TimerInitConf(c) ==
    /\ conf = c
    /\ activeThreads = [s \in Scheds |-> IF s = 1 THEN NThreads ELSE 0]
    /\ front = [s \in Scheds |-> IF s = 1 THEN 1 ELSE NULL]
    /\ last = [s \in Scheds |-> IF s = 1 THEN c.tasks ELSE NULL]
    /\ cfront = [s \in Scheds |-> NULL]
    /\ clast = [s \in Scheds |-> NULL]
    /\ cvWait = [s \in Scheds |-> {}]
    /\ next = [t \in AllTasks |->
                 IF t \in 1..(c.tasks - 1) THEN t + 1 ELSE NULL]
    /\ ntasks = c.tasks
    /\ freed = {}
    /\ saved = [t \in AllTasks |-> UserCtx]
    /\ tls = [th \in Threads |-> 1]
    /\ currentTask = [th \in Threads |-> InitialTask(th)]
    /\ cur = [th \in Threads |-> InitialTask(th)]
    /\ ctx = [th \in Threads |-> UserCtx]
    /\ crashed = FALSE
    /\ owner = [t \in AllTasks |-> IF t \in 1..c.tasks THEN 1 ELSE NULL]
    /\ wakePending = {}
    /\ enq = [s \in Scheds |->
                IF s = 1 THEN [i \in 1..c.tasks |-> i] ELSE <<>>]
    /\ rt = [th \in Threads |-> NoRT]
    /\ inWait = {}
    /\ ops = 0
    /\ SemaInitWith([S \in Semas |-> 0])
    /\ WgInit
    /\ TimerDataInit

TimerInit ==
    TimerInitConf([nsched |-> 1, budget |-> MaxSleeps, minms |-> 1,
                   tasks |-> NTimerTasks])

\* fewer tasks, which make fewer calls, sleepMS(0) among them
TimerLiveInit ==
    TimerInitConf([nsched |-> 1, budget |-> MaxLiveSleeps, minms |-> 0,
                   tasks |-> NLiveTimerTasks])

\* timers[i] of the code is At(h, i) here (the vector is indexed from 0)
At(h, i) == h[i + 1]

\* the two assignments pairs of a swap, timer.cpp lines 64..67 / 127..130:
\* h is [timers, index], the vector and every Timer's internalHeapIndex
HeapSwap(h, i, j) ==
    LET a == At(h.timers, i)
        b == At(h.timers, j)
    IN  [timers |-> [h.timers EXCEPT ![i + 1] = b, ![j + 1] = a],
         index |-> [h.index EXCEPT ![b] = i, ![a] = j]]

\* heapBubbleUp, timer.cpp lines 46..72; w is Timer::when of every timer
RECURSIVE heapBubbleUp(_, _, _)
heapBubbleUp(h, w, timerIndex) ==
    IF timerIndex > 0
    THEN LET parentIndex == (timerIndex - 1) \div 4
         IN  IF w[At(h.timers, timerIndex)] >= w[At(h.timers, parentIndex)]
             THEN h
             ELSE heapBubbleUp(HeapSwap(h, parentIndex, timerIndex), w, parentIndex)
    ELSE h

\* the index of the sibling pair examined by heapBubbleDown, line 100
siblingIndex(timerIndex) == timerIndex + 2

\* heapBubbleDown, timer.cpp lines 74..134
RECURSIVE heapBubbleDown(_, _, _)
heapBubbleDown(h, w, timerIndex) ==
    LET ntimers == Len(h.timers)
        W(i) == w[At(h.timers, i)]
        when_ == W(timerIndex)
        c0 == timerIndex * 4 + 1
        \* lines 92..97
        c1 == IF c0 + 1 < ntimers /\ W(c0 + 1) < when_ THEN c0 + 1 ELSE c0
        s0 == siblingIndex(timerIndex)
        \* lines 104..109
        s1 == IF s0 + 1 < ntimers /\ W(s0 + 1) < W(s0) THEN s0 + 1 ELSE s0
        \* lines 101..117
        candidateIndex == IF s0 < ntimers /\ W(s1) < W(c1) THEN s1 ELSE c1
    IN  IF c0 >= ntimers
        THEN h
        ELSE IF W(candidateIndex) >= when_
             THEN h
             ELSE heapBubbleDown(HeapSwap(h, timerIndex, candidateIndex), w,
                                 candidateIndex)

\* addWithLock, lines 136..142
addWithLock(h, w, timer) ==
    LET n == Len(h.timers)
    IN  heapBubbleUp([timers |-> Append(h.timers, timer),
                      index |-> [h.index EXCEPT ![timer] = n]], w, n)

\* lines 180..198: remove the root of a non-empty heap
RemoveRoot(h, w) ==
    LET t == At(h.timers, 0)
        lastIndex == Len(h.timers) - 1
        moved == IF lastIndex > 0
                 THEN [timers |-> [h.timers EXCEPT ![1] = At(h.timers, lastIndex)],
                       index |-> [h.index EXCEPT ![At(h.timers, lastIndex)] = 0]]
                 ELSE h
        popped == [moved EXCEPT !.timers = SubSeq(moved.timers, 1, lastIndex)]
        down == IF lastIndex > 0 THEN heapBubbleDown(popped, w, 0) ELSE popped
    IN  [down EXCEPT !.index[t] = 0 - 1]

Heap == [timers |-> timers, index |-> internalHeapIndex]

\* task t is running user code and may call sleepMS once more
TimerAtUser(t) ==
    /\ ~crashed
    /\ OnThread(t)
    /\ slp[t] = "user"
    /\ tops < conf.budget

\* the scheduler fiber of thread 1 pops the next task and runs it
TimerDispatch(th) ==
    LET p == taskListPop(front[1], last[1], next)
    IN  /\ ~crashed
        /\ th # TimerThread
        /\ cur[th] = InitialTask(th)
        /\ ~timerUnlock[th]
        /\ p.task # NULL
        /\ front' = [front EXCEPT ![1] = p.front]
        /\ last' = [last EXCEPT ![1] = p.last]
        /\ next' = p.next
        /\ enq' = [enq EXCEPT ![1] = RemoveFirst(@, p.task)]
        /\ cur' = [cur EXCEPT ![th] = p.task]
        /\ currentTask' = [currentTask EXCEPT ![th] = p.task]
        /\ UNCHANGED <<timerFixed, cvWait, crashed, timerVars>>

\* the entry function of task t returns; its thread is idle again
TimerTaskReturn(t) ==
    /\ ~crashed
    /\ OnThread(t)
    /\ slp[t] = "user"
    /\ slp' = [slp EXCEPT ![t] = "done"]
    /\ cur' = [cur EXCEPT ![ThreadOf(t)] = InitialTask(ThreadOf(t))]
    /\ currentTask' = [currentTask EXCEPT ![ThreadOf(t)] = InitialTask(ThreadOf(t))]
    /\ UNCHANGED <<timerFixed, queueVars, timers, when, internalHeapIndex,
                   timerLock, clock, tp, timerUnlock, tmHist, tops>>

\* the `until` of a wait on ctx->cond that has no timeout, line 207
Forever == 0 - 1

\* timer_clock::now() advances while a pending timer or the timeout of the
\* timer thread's wait lies ahead of it
Tick ==
    /\ ~crashed
    /\ \/ \E t \in SeqToSet(timers) : when[t] > clock
       \/ tp.pc = "wait" /\ tp.until # Forever /\ tp.until > clock
    /\ clock' = clock + 1
    /\ UNCHANGED <<timerFixed, queueVars, cur, currentTask, timers, when,
                   internalHeapIndex, timerLock, tp, slp, timerUnlock, tmHist,
                   tops>>

\* sleepMS(ms), lines 218..222: the Timer on the task's stack is filled in
SleepMS(t, ms) ==
    /\ TimerAtUser(t)
    /\ when' = [when EXCEPT ![t] = clock + ms]
    /\ slp' = [slp EXCEPT ![t] = "sl_lock"]
    /\ tmHist' = [tmHist EXCEPT !.sleeps[t] = @ + 1]
    /\ tops' = tops + 1
    /\ UNCHANGED <<timerFixed, queueVars, cur, currentTask, timers,
                   internalHeapIndex, timerLock, clock, tp, timerUnlock>>

\* who holds ctx->lock when sleepMS reaches suspendWithUnlock, lines 225..230
LockAfterAdd_Unlocked(t) == NULL
LockAfterAdd(t) == t

\* addWithLock, lines 144..148: is ctx->cond notified after the insertion
\* that left the timer at `index`?
NotifyAfterAdd_Never(index) == FALSE
NotifyAfterAdd(index) == index = 0

\* sleepMS, lines 225..227: timers->lock.lock(); addWithLock(timers, &timer);
\* notify_one reaches the timer thread if it is blocked in the wait
SleepAdd(t) ==
    LET h == addWithLock(Heap, when, t)
    IN  /\ ~crashed
        /\ OnThread(t)
        /\ slp[t] = "sl_lock"
        /\ timerLock = NULL
        /\ timers' = h.timers
        /\ internalHeapIndex' = h.index
        /\ timerLock' = LockAfterAdd(t)
        /\ slp' = [slp EXCEPT ![t] = "sl_added"]
        /\ tp' = IF NotifyAfterAdd(h.index[t]) /\ tp.pc = "wait"
                 THEN [tp EXCEPT !.notified = TRUE] ELSE tp
        /\ UNCHANGED <<timerFixed, queueVars, cur, currentTask, when, clock,
                       timerUnlock, tmHist, tops>>

\* sleepMS, lines 230..233: suspendWithUnlock(task, unlock, timers): the task
\* is parked and its thread, back on the scheduler fiber, owes the callback
SleepSuspend(t) ==
    /\ ~crashed
    /\ OnThread(t)
    /\ slp[t] = "sl_added"
    /\ cur' = [cur EXCEPT ![ThreadOf(t)] = InitialTask(ThreadOf(t))]
    /\ currentTask' = [currentTask EXCEPT ![ThreadOf(t)] = InitialTask(ThreadOf(t))]
    /\ timerUnlock' = [timerUnlock EXCEPT ![ThreadOf(t)] = TRUE]
    /\ slp' = [slp EXCEPT ![t] = "parked"]
    /\ UNCHANGED <<timerFixed, queueVars, timers, when, internalHeapIndex,
                   timerLock, clock, tp, tmHist, tops>>

\* the scheduler fiber invokes the callback of timer.cpp lines 230..233
TimerSchedUnlock(th) ==
    /\ ~crashed
    /\ timerUnlock[th]
    /\ timerLock' = NULL
    /\ timerUnlock' = [timerUnlock EXCEPT ![th] = FALSE]
    /\ UNCHANGED <<timerFixed, queueVars, cur, currentTask, timers, when,
                   internalHeapIndex, clock, tp, slp, tmHist, tops>>

\* a woken task runs again: suspendWithUnlock and sleepMS return
SleepReturn(t) ==
    /\ ~crashed
    /\ OnThread(t)
    /\ slp[t] = "parked"
    /\ slp' = [slp EXCEPT ![t] = "user"]
    /\ tmHist' = [tmHist EXCEPT !.resumes[t] = @ + 1]
    /\ UNCHANGED <<timerFixed, queueVars, cur, currentTask, timers, when,
                   internalHeapIndex, timerLock, clock, tp, timerUnlock, tops>>

\* the wait of lines 205..212 is over: notified, or its timeout has passed
WaitOver == tp.notified \/ (tp.until # Forever /\ clock >= tp.until)

\* lines 205..213: cond.wait / wait_for returns (it holds ctx->lock again)
\* and the pass of the outer loop ends, which unlocks ctx->lock
TimerWakeup ==
    /\ ~crashed
    /\ tp.pc = "wait"
    /\ timerLock = NULL
    /\ WaitOver
    /\ tp' = [tp EXCEPT !.pc = "lock", !.until = Forever, !.notified = FALSE]
    /\ UNCHANGED <<timerFixed, queueVars, cur, currentTask, timers, when,
                   internalHeapIndex, timerLock, clock, slp, timerUnlock,
                   tmHist, tops>>

\* the same, for a wait that returns spuriously
TimerSpurious ==
    /\ ~crashed
    /\ tp.pc = "wait"
    /\ timerLock = NULL
    /\ ~WaitOver
    /\ tp' = [tp EXCEPT !.pc = "lock", !.until = Forever, !.notified = FALSE]
    /\ UNCHANGED <<timerFixed, queueVars, cur, currentTask, timers, when,
                   internalHeapIndex, timerLock, clock, slp, timerUnlock,
                   tmHist, tops>>

\* timerContextProcess, lines 155..157: the lock is taken, now is read
TimerLock ==
    /\ ~crashed
    /\ tp.pc = "lock"
    /\ timerLock = NULL
    /\ timerLock' = TimerHolder
    /\ tp' = [tp EXCEPT !.pc = "scan", !.now = clock]
    /\ UNCHANGED <<timerFixed, queueVars, cur, currentTask, timers, when,
                   internalHeapIndex, clock, slp, timerUnlock, tmHist, tops>>

\* lines 160..178: is there a first timer, and has it expired?
Expired_AnyRoot == timers # <<>>
Expired == timers # <<>> /\ when[At(timers, 0)] - tp.now <= 0

\* lines 180..198: the expired root leaves the heap
TimerExpire ==
    LET h == RemoveRoot(Heap, when)
    IN  /\ ~crashed
        /\ tp.pc = "scan"
        /\ Expired
        /\ timers' = h.timers
        /\ internalHeapIndex' = h.index
        /\ tp' = [tp EXCEPT !.pc = "wake", !.t = At(timers, 0)]
        /\ UNCHANGED <<timerFixed, queueVars, cur, currentTask, when, timerLock,
                       clock, slp, timerUnlock, tmHist, tops>>

\* line 201: wake(t->task), on the timer thread
TimerWake ==
    /\ ~crashed
    /\ tp.pc = "wake"
    /\ wake(TimerThread, tp.t)
    /\ tp' = [tp EXCEPT !.pc = "scan", !.t = NULL]
    /\ tmHist' = [tmHist EXCEPT !.wakes[tp.t] = @ + 1]
    /\ UNCHANGED <<timerFixed, cur, currentTask, timers, when,
                   internalHeapIndex, timerLock, clock, slp, timerUnlock, tops>>

\* lines 163..178 leave the inner loop, lines 205..212 wait on ctx->cond,
\* which unlocks ctx->lock: without timeout if there is no timer, for
\* delta = timers[0]->when - now otherwise
TimerWait ==
    /\ ~crashed
    /\ tp.pc = "scan"
    /\ ~Expired
    /\ timerLock' = NULL
    /\ tp' = [tp EXCEPT !.pc = "wait",
                        !.until = IF timers = <<>> THEN Forever
                                  ELSE clock + (when[At(timers, 0)] - tp.now)]
    /\ UNCHANGED <<timerFixed, queueVars, cur, currentTask, timers, when,
                   internalHeapIndex, clock, slp, timerUnlock, tmHist, tops>>

TimerNext ==
    \/ \E th \in Threads : TimerDispatch(th)
    \/ \E th \in Threads : TimerSchedUnlock(th)
    \/ \E t \in TimerTasks : TimerTaskReturn(t)
    \/ \E t \in TimerTasks, ms \in conf.minms..MaxMs : SleepMS(t, ms)
    \/ \E t \in TimerTasks : SleepAdd(t)
    \/ \E t \in TimerTasks : SleepSuspend(t)
    \/ \E t \in TimerTasks : SleepReturn(t)
    \/ Tick
    \/ TimerWakeup
    \/ TimerSpurious
    \/ TimerLock
    \/ TimerExpire
    \/ TimerWake
    \/ TimerWait

TimerSpec == TimerInit /\ [][TimerNext]_vars

\* the steps task t takes once it called sleepMS, and its return
TimerInternal(t) ==
    \/ SleepSuspend(t)
    \/ SleepReturn(t)
    \/ TimerTaskReturn(t)

\* the steps of timerContextProcess (a spurious return of its wait is not
\* one it can be relied on to take)
TimerProcess ==
    \/ TimerWakeup
    \/ TimerLock
    \/ TimerExpire
    \/ TimerWake
    \/ TimerWait

\* the timer under fair scheduling: every thread keeps running, the clock
\* keeps advancing, and a task that wants ctx->lock gets it while the timer
\* thread keeps releasing it
TimerFairSpec ==
    /\ TimerLiveInit /\ [][TimerNext]_vars
    /\ \A th \in Threads : WF_vars(TimerDispatch(th))
    /\ \A th \in Threads : WF_vars(TimerSchedUnlock(th))
    /\ \A t \in TimerTasks : WF_vars(TimerInternal(t))
    /\ \A t \in TimerTasks : SF_vars(SleepAdd(t))
    /\ WF_vars(TimerProcess)
    /\ WF_vars(Tick)

\* ------------------------------------------------------------------ claims
LiveTasks == (1..ntasks) \ freed

OnRunQueue(t) == \E s \in Scheds : t \in SeqToSet(RunQueue(s))
OnCompletedQueue(t) == \E s \in Scheds : t \in SeqToSet(CompletedQueue(s))
Running(t) == \E th \in Threads : Executing(th, t)
Parked(t) == ~OnRunQueue(t) /\ ~OnCompletedQueue(t) /\ ~Running(t)

\* C1: every live task is in exactly one of {run queue, completed queue,
\* parked, running on a thread}
C1_ExactlyOnePlace ==
    \A t \in LiveTasks :
        Cardinality({k \in {"runq", "completed", "parked", "running"} :
            \/ k = "runq" /\ OnRunQueue(t)
            \/ k = "completed" /\ OnCompletedQueue(t)
            \/ k = "parked" /\ Parked(t)
            \/ k = "running" /\ Running(t)}) = 1

\* C2: no thread switches into a task's fiber while another thread is still
\* executing that task
C2_NoSwitchIntoExecuting ==
    [][\A th \in Threads :
          (SwitchToTask(th) /\ ctx[th].task \in Tasks) =>
              ~\E x \in Threads \ {th} : Executing(x, ctx[th].task)]_vars

\* C3: user code of a task that called suspendSelf() runs again only after a
\* wake(t) for it was issued
C3_NoReturnWithoutWake ==
    \A th \in Threads :
        (~crashed /\ ctx[th].pc = "user") => cur[th] \notin wakePending

\* C4: the task a scheduling pass pops is the one enqueued earliest among
\* those enqueued and not yet popped
C4_Fifo ==
    [][\A th \in Threads :
          (ScheduleLoop(th) /\ ctx'[th].pc = "st_switch") =>
              /\ enq[ctx[th].sched] # <<>>
              /\ ctx'[th].task = Head(enq[ctx[th].sched])]_vars

\* C5: wake(t) appends t to the run queue of the scheduler t was spawned on
\* and changes no other run queue, whichever thread calls it
C5_WakeOwnerQueue ==
    [][\A th \in Threads, t \in Tasks :
          Wake(th, t) =>
              /\ ~crashed'
              /\ ListFrom(front'[owner[t]], next', ListLimit)
                     = Append(RunQueue(owner[t]), t)
              /\ \A s \in Scheds \ {owner[t]} :
                     ListFrom(front'[s], next', ListLimit) = RunQueue(s)]_vars

\* C6: attachToThread(s) followed by detachFromThread(s) leaves
\* s.activeThreads as before the attach and the thread unattached
C6_AttachDetachRoundTrip ==
    \A th \in Threads :
        rt[th].phase = "detached" =>
            /\ activeThreads[rt[th].sched] = rt[th].base
            /\ tls[th] = NULL

\* C7: a call of waitForOtherThreadsAndDetach returns on the calling thread:
\* the thread is never terminated while its call is pending
C7_WaitForReturns ==
    \A th \in Threads : th \in inWait => ctx[th].pc # "exited"

\* C8: the operation that brings activeThreads to 0 releases every thread
\* blocked on the run-queue condvar (none can start waiting afterwards, line
\* 140 returns first): no thread is in the wait set while activeThreads = 0
C8_NoWaiterAtZero ==
    \A s \in Scheds : activeThreads[s] = 0 => cvWait[s] = {}

\* C9: while activeThreads = 0 no scheduling pass switches into a task (and no
\* SchedulerThread exists for the scheduler: that half fails as soon as the
\* last decrement is made while another thread is still inside its loop)
C9_NoSwitchAtZero ==
    [][\A th \in Threads :
          SwitchToTask(th) => activeThreads[ctx[th].sched] # 0]_vars

\* acquire calls on S that have returned (line 85, 102 or 120) or try_acquire
\* calls that returned true: the successful decrements, less those of callers
\* that still have to leave the critical section of lines 100..102
CompletedAcquires(S) ==
    nAcq[S] - Cardinality({t \in SemaTasks : sp[t].pc = "a_dec" /\ sp[t].sema = S})

Holders(S) == {t \in SemaTasks : holding[t][S] > 0}

\* C10: the permit counter equals initial + release increments - successful
\* acquire/try_acquire decrements and is never negative; completed acquires
\* never exceed initial + started releases; with 1 initial permit, used as a
\* lock, at most one task is between acquire and release
C10_PermitAccounting ==
    \A S \in Semas :
        /\ sem[S] = initial[S] + nRel[S] - nAcq[S]
        /\ sem[S] >= 0
        /\ CompletedAcquires(S) <= initial[S] + nRel[S]
        /\ (initial[S] = 1 /\ nPost[S] = 0) => Cardinality(Holders(S)) <= 1

\* a task holds the one permit of S after another task acquired and released
\* it, and a third is parked waiting for it
C10_Witness ==
    \E S \in Semas, t \in SemaTasks :
        /\ initial[S] = 1
        /\ nPost[S] = 0
        /\ nRel[S] >= 1
        /\ nAcq[S] >= 2
        /\ holding[t][S] > 0
        /\ \E x \in SemaTasks : rootHead[RootOf(S)] = x /\ wsema[x] = S

\* task t is inside acquire() on S
InAcquire(t, S) == sp[t].sema = S /\ sp[t].stage \in {"fast", "locked", "woken"}

\* the acquire() calls on S that have not taken a permit yet
Unserved(S) == {t \in SemaTasks : InAcquire(t, S) /\ sp[t].pc # "a_dec"}

\* the acquire() calls made on S so far (no try_acquire() is made)
AcquireCalls(S) == nAcq[S] + Cardinality(Unserved(S))

\* C11: if in the end the acquire() calls on S are at most initial permits +
\* release() calls, then under fair scheduling every acquire() on S returns
C11_NoLostWakeup ==
    \A S \in Semas :
        <>[](AcquireCalls(S) <= initial[S] + nRel[S]) =>
            \A t \in SemaTasks : [](InAcquire(t, S) => <>(~InAcquire(t, S)))

\* a task that was parked in acquire() has been woken by a release() and is
\* back in user code holding the permit
C11_Witness ==
    \E S \in Semas, t \in SemaTasks :
        /\ sp[t].pc = "user"
        /\ holding[t][S] > 0
        /\ wsema[t] = S
        /\ nRel[S] >= 1
        /\ AcquireCalls(S) <= initial[S] + nRel[S]

\* C12: try_acquire() never suspends the caller; it returns true and takes
\* exactly one permit if the counter is > 0 at its atomic step, otherwise it
\* returns false and leaves the counter, the root's waiter count and the
\* root's waiter list unchanged
C12_TryAcquire ==
    /\ [](\A t \in SemaTasks :
            sp[t].stage = "try" => OnThread(t) /\ sp[t].pc = "ta_cas")
    /\ [][\A t \in SemaTasks, S \in Semas :
            SemaTryAcquire(t, S) =>
                /\ sp'[t].v = sem[S]
                /\ UNCHANGED <<sem, rootVars, cur, holding>>]_vars
    /\ [][\A t \in SemaTasks :
            (sp[t].stage = "try" /\ sp'[t] # sp[t]) =>
                LET S == sp[t].sema
                IN  /\ UNCHANGED <<rootVars, cur>>
                    /\ \A S2 \in Semas \ {S} : sem'[S2] = sem[S2]
                    /\ IF sp[t].v # 0 /\ sem[S] = sp[t].v
                       THEN /\ sem'[S] = sem[S] - 1
                            /\ holding'[t][S] = holding[t][S] + 1
                            /\ sp'[t].pc = "user"
                       ELSE /\ sem'[S] = sem[S]
                            /\ holding' = holding
                            /\ IF sp[t].v = 0
                               THEN sp'[t].pc = "user"
                               ELSE sp'[t].stage = "try" /\ sp'[t].v = sem[S]]_vars

\* a try_acquire() has read a counter of 0 while a Waiter is linked in the root
C12_Witness ==
    \E t \in SemaTasks :
        /\ sp[t].stage = "try"
        /\ sp[t].v = 0
        /\ rootHead[RootOf(sp[t].sema)] # NULL
        /\ \E x \in SemaTasks, S \in Semas : holding[x][S] > 0

\* C13: a wait() that registered as a waiter returns only after the count
\* reached zero at some point after its registration (a wait() that does not
\* register read a count of zero), in every run where no assert of add failed
C13_WaitReturnsAfterZero ==
    [][\A t \in SemaTasks :
          (WgWaitReturn(t) /\ ~wgBad) => wreg[t] = "zeroed"]_vars

\* task t is inside add() / inside wait()
InAdd(t) == wp[t].pc \in {"a_assert", "a_verify", "a_store", "a_release"}
InWgWait(t) == wp[t].pc \in {"w_test", "w_acquire", "w_wait"}

\* add(+n) and the n calls add(-1) have been made and have returned
RoundComplete ==
    /\ wgCalls.plus = 1
    /\ wgCalls.minus = conf.n
    /\ \A t \in SemaTasks : ~InAdd(t)

\* C14: after add(+n) and n calls add(-1), with w wait() calls made at any
\* time, the state word is 0, the semaphore was released once per registered
\* waiter, and every pending wait() eventually returns
C14_RoundReleasesAll ==
    /\ [](RoundComplete =>
            /\ wgState = [count |-> 0, waiters |-> 0]
            /\ wgRels = wgRegs)
    /\ \A t \in SemaTasks :
          [](RoundComplete /\ InWgWait(t) => <>(~InWgWait(t)))

\* the round is complete, two waiters registered during it and both wait()
\* calls have returned
C14_Witness ==
    /\ RoundComplete
    /\ wgRegs = 2
    /\ wgCalls.waits = 2
    /\ \A t \in SemaTasks : ~InWgWait(t)

\* C15: in every state of a process that has not aborted, the count half of
\* the state word is >= 0 (an add that would take it below 0 aborts instead)
C15_CountNeverNegative == ~crashed => wgState.count >= 0

\* C16: the timer that timerContextProcess removes in order to wake its task
\* has a deadline earlier than that of every timer still pending
\* (the sleeps made so far having pairwise distinct deadlines)
DistinctDeadlines ==
    \A a, b \in TimerTasks :
        (a # b /\ tmHist.sleeps[a] > 0 /\ tmHist.sleeps[b] > 0) => when[a] # when[b]

C16_DeadlineOrder ==
    [][(tp.pc = "scan" /\ tp'.pc = "wake" /\ DistinctDeadlines) =>
           \A u \in SeqToSet(timers') : when[u] > when[tp'.t]]_vars

C18_RoundRobin ==
    \A i \in 1..Len(rec) : rec[i] = ((i - 1) % conf.k) + 1

\* three tasks have recorded and yielded twice each
C18_Witness ==
    /\ conf.k = 3 /\ conf.m = 2
    /\ Len(rec) = 6

\* C19: when the execution path of a completed task touches the task's
\* record after appending it to taskListCompleted (schedule_task line 133),
\* the record has not been destroyed
C19_NoTouchAfterAppend ==
    \A th \in Threads : ctx[th].pc = "st_entry" => currentTask[th] \notin freed

\* C20: every task the drain of taskListCompleted releases has not been
\* released before, is not on the run queue, and is not the task on whose
\* fiber the drain runs
C20_DrainReleasesOnce ==
    [][\A th \in Threads :
          DrainCompleted(th) =>
              \A t \in SeqToSet(CompletedQueue(ctx[th].sched)) :
                  /\ t \notin freed
                  /\ t # cur[th]
                  /\ ~OnRunQueue(t)]_vars

\* C21: after every insertion and every removal of the root, the timers
\* vector is a 4-ary min-heap: the deadline at index (i-1)/4 is <= the
\* deadline at index i, for every index i > 0
C21_MinHeap ==
    \A i \in 1..(Len(timers) - 1) :
        when[At(timers, (i - 1) \div 4)] <= when[At(timers, i)]

\* C22: the timer thread removes and wakes a timer only when the clock value
\* it sampled is >= the timer's deadline, and the sample is not ahead of the
\* clock: no task is woken before the deadline its sleepMS call computed
C22_NoEarlyWake ==
    /\ tp.pc = "wake" => (when[tp.t] <= tp.now /\ tp.now <= clock)
    /\ \A t \in TimerTasks :
           (tmHist.wakes[t] = tmHist.sleeps[t] /\ tmHist.sleeps[t] > 0) =>
               when[t] <= clock

\* a timer is being woken while a timer with a later deadline, not yet
\* expired, stays in the heap
C22_Witness ==
    /\ tp.pc = "wake"
    /\ \E u \in SeqToSet(timers) : when[u] > clock

C24_ReleaseFrame ==
    /\ [][\A t \in SemaTasks, S \in Semas :
            SemaRelease(t, S) =>
                /\ sem' = [sem EXCEPT ![S] = @ + 1]
                /\ UNCHANGED <<rootVars, enq>>]_vars
    /\ [][\A t \in SemaTasks :
            (sp[t].pc = "r_lock" /\ sp'[t] # sp[t]) =>
                LET S == sp[t].sema
                    r == RootOf(S)
                    list == RootList(r)
                IN  /\ UNCHANGED <<sem, enq, wsema, rootLock>>
                    /\ IF \E w \in SeqToSet(list) : wsema[w] = S
                       THEN /\ sp'[t].pc = "r_wake"
                            /\ sp'[t].w \in SeqToSet(list)
                            /\ wsema[sp'[t].w] = S
                            /\ RootList(r)' = RemoveFirst(list, sp'[t].w)
                            /\ rootWaiters'[r] = rootWaiters[r] - 1
                       ELSE /\ sp'[t] = SemaUser
                            /\ UNCHANGED <<rootHead, rootWaiters, wnext>>]_vars
    /\ [][\A t \in SemaTasks :
            (sp[t].pc = "r_wake" /\ sp'[t] # sp[t]) =>
                /\ sp'[t] = SemaUser
                /\ enq'[1] = Append(enq[1], sp[t].w)
                /\ UNCHANGED <<sem, rootVars>>]_vars

\* release() on S is in its critical section while the bucket it shares
\* holds a Waiter, and only Waiters of the other semaphore
C24_Witness ==
    \E t \in SemaTasks :
        LET S == sp[t].sema
            list == RootList(RootOf(S))
        IN  /\ sp[t].pc = "r_lock"
            /\ rootLock[RootOf(S)] = NULL
            /\ list # <<>>
            /\ \A w \in SeqToSet(list) : wsema[w] # S

\* a task is parked inside Sema::acquire (lines 112..115)
ParkedInAcquire(t) ==
    sp[t].pc = "ta_load" /\ sp[t].stage = "woken" /\ ~OnThread(t)

\* the places where a parked task is: linked in its root's list, unlinked by
\* a release() that has not called wake yet, on the run queue
ParkPlaces(t) ==
    Cardinality({ri \in Roots \X (1..ListLimit) :
                     ri[2] <= Len(RootList(ri[1])) /\ RootList(ri[1])[ri[2]] = t})
    + Cardinality({x \in SemaTasks : sp[x].pc = "r_wake" /\ sp[x].w = t})
    + Cardinality({i \in 1..Len(enq[1]) : enq[1][i] = t})

\* C25: a task parked inside Sema::acquire is linked in its root's list, or
\* unlinked by exactly one release() that is about to wake it, or woken once
\* (never two of these, never twice); wake is called only for a parked task;
\* while a thread owes the unlock callback, the root lock is still held for
\* the task it switched out, and that task's Waiter is still linked
C25_OneWakePerPark ==
    /\ \A t \in SemaTasks : ParkedInAcquire(t) => ParkPlaces(t) = 1
    /\ \A x \in SemaTasks :
           sp[x].pc = "r_wake" =>
               /\ ParkedInAcquire(sp[x].w)
               /\ \A th \in Threads :
                      unlockPending[th] # NULL => rootLock[unlockPending[th]] # sp[x].w
    /\ \A th \in Threads :
           unlockPending[th] # NULL =>
               LET t == rootLock[unlockPending[th]]
               IN  /\ t \in SemaTasks
                   /\ ParkedInAcquire(t)
                   /\ rootHead[unlockPending[th]] = t

\* two tasks were parked on the same Sema; one release() has unlinked a
\* Waiter to wake it, the other task was woken earlier and is on the run queue
C25_Witness ==
    \E x, t, u \in SemaTasks :
        /\ t # u
        /\ sp[x].pc = "r_wake" /\ sp[x].w = t
        /\ ParkedInAcquire(u) /\ u \in SeqToSet(enq[1])
        /\ sp[u].sema = sp[t].sema

\* C26: a wait() that read a count of 0 returns at once, without registering
\* and without calling sema.acquire()
C26_ZeroReturnsAtOnce ==
    [][\A t \in SemaTasks :
          (WgWaitTest(t) /\ wp[t].count = 0) =>
              /\ wp'[t] = WgUser
              /\ wgState' = wgState
              /\ sp' = sp]_vars

\* C26: the waiters half grows only in the compare-and-swap of a wait(), by
\* one, and the word it replaces has a count other than 0
C26_RegisterAgainstNonzero ==
    [][wgState'.waiters > wgState.waiters =>
          /\ wgState.count # 0
          /\ wgState' = [wgState EXCEPT !.waiters = @ + 1]
          /\ \E t \in SemaTasks :
                 /\ WgWaitTest(t)
                 /\ wp[t].count = wgState.count /\ wp[t].waiters = wgState.waiters
                 /\ wp'[t].pc = "w_acquire"]_vars

\* C26: the add that brought the count to 0 with waiters registered finds, at
\* line 45, the state word equal to the word it computed at line 35
C26_ZeroAddSeesItsWord ==
    [][\A t \in SemaTasks :
          WgAddVerify(t) =>
              wgState.count = wp[t].count /\ wgState.waiters = wp[t].waiters]_vars

\* C26: wait() at count 0 returns immediately, a waiter registers only by a
\* compare-and-swap against a word whose count is nonzero, and the add that
\* reaches zero always observes the word it computed
C26_NoLateRegistration ==
    /\ C26_ZeroReturnsAtOnce
    /\ C26_RegisterAgainstNonzero
    /\ C26_ZeroAddSeesItsWord

\* C27: whenever the mutex of a root is not held, the root's waiter count
\* equals the number of Waiters linked in its list, and every linked Waiter
\* belongs to a task that is parked inside acquire()
C27_CountMatchesList ==
    \A r \in Roots :
        rootLock[r] = NULL =>
            /\ rootWaiters[r] = Len(RootList(r))
            /\ \A i \in 1..Len(RootList(r)) :
                   /\ RootList(r)[i] \in SemaTasks
                   /\ ParkedInAcquire(RootList(r)[i])
                   /\ RootOf(sp[RootList(r)[i]].sema) = r
                   /\ wsema[RootList(r)[i]] = sp[RootList(r)[i]].sema

\* the mutex of a root is free, two Waiters are linked in its list, and a
\* third task holds a permit it acquired
C27_Witness ==
    \E r \in Roots :
        /\ rootLock[r] = NULL
        /\ Len(RootList(r)) = 2
        /\ \E t \in SemaTasks, S \in Semas : holding[t][S] > 0

====
